---- MODULE Spec2Model ----
(***************************************************************************)
(* Model of the PMP binding generator: main (src/main.cxx) calls           *)
(* pmp_rosetta::register_all (src/bindings/pmp_registration.h), which      *)
(* issues a fixed sequence of registration calls on the Rosetta Registry   *)
(* and FunctionRegistry, and then runs BindingGeneratorLib::run.           *)
(*                                                                         *)
(* Spec      : the process, one action per registration call of            *)
(*             register_all and per step of main.                          *)
(* SpecMesh  : the two synthesized SurfaceMesh methods ("vertices",        *)
(*             "indices") applied at call time to meshes built through the *)
(*             registered mutators.                                        *)
(*                                                                         *)
(* Rosetta and PMP are libraries outside this repository.  What a          *)
(* registration call does when its name is already present is not fixed    *)
(* by the sources here: every outcome (throw, overwrite, append) is kept.  *)
(***************************************************************************)
EXTENDS Integers, Sequences, FiniteSets, TLC

VARIABLES
    pc,             \* position of main: "main_15", "register_all", "main_19", "run", "exited", "terminated"
    ip,             \* index in Ops of the next registration call of register_all
    registry,       \* rosetta::core::Registry: sequence of type descriptors
    func_registry,  \* rosetta::core::FunctionRegistry: sequence of function descriptors
    builder,        \* index in registry of the descriptor the current chained calls extend (0: none)
    overwritten,    \* names whose earlier descriptor a later registration replaced
    executed,       \* registered callables that have been executed
    argc, argv,     \* the parameters of main
    runArgs,        \* what BindingGeneratorLib::run received: [started, argc, argv]
    genPos,         \* number of descriptors the generator has read
    genRet,         \* what BindingGeneratorLib::run returned: [returned, value]
    exit,           \* how the process ended: [kind, code]
    mesh,           \* a pmp::SurfaceMesh at call time: [verts, faces]
    ret             \* the buffer the last call on the mesh returned: [call, buf]

vars == <<pc, ip, registry, func_registry, builder, overwritten, executed,
          argc, argv, runArgs, genPos, genRet, exit, mesh, ret>>

procVars == <<pc, ip, registry, func_registry, builder, overwritten, executed,
              argc, argv, runArgs, genPos, genRet, exit>>

meshVars == <<mesh, ret>>

----------------------------------------------------------------------------
(* Bounds *)

\* number of command-line options after argv[0]
MaxArgs == 2

\* generator return values range over -1 .. MaxRet
MaxRet == 2

\* number of elements (vertices plus faces) of a mesh
MaxElements == 6

----------------------------------------------------------------------------
(* The registration calls of register_all, in source order *)

\* ROSETTA_REGISTER_CLASS(T): the macro argument is the registered name
Class(n, l) ==
    [op |-> "class", name |-> n, sig |-> <<>>, ret |-> "", arg |-> "none", line |-> l]

\* .constructor<Params...>()
Ctor(params, l) ==
    [op |-> "constructor", name |-> "", sig |-> params, ret |-> "", arg |-> "none", line |-> l]

\* .field("name", &T::member): a pointer to member, nothing is read
Field(n, l) ==
    [op |-> "field", name |-> n, sig |-> <<>>, ret |-> "", arg |-> "memptr", line |-> l]

\* .method("name", &T::member): a pointer to member function, nothing is called
Method(n, r, l) ==
    [op |-> "method", name |-> n, sig |-> <<>>, ret |-> r, arg |-> "memptr", line |-> l]

\* .lambda_method_const<R>("name", [](const T&){...}) and .lambda_method<R>(...):
\* a lambda expression yields a closure, its body is not run
Lambda(n, r, l) ==
    [op |-> "lambda_method", name |-> n, sig |-> <<>>, ret |-> r, arg |-> "closure", line |-> l]

\* ROSETTA_REGISTER_FUNCTION(f): exposed under the name of f
Func(n, l) ==
    [op |-> "function", name |-> n, sig |-> <<"deduced">>, ret |-> "deduced",
     arg |-> "funcptr", line |-> l]

\* ROSETTA_REGISTER_OVERLOADED_FUNCTION(f, R (*)(Params...)): exposed under the name of f
Overloaded(n, r, params, l) ==
    [op |-> "overloaded_function", name |-> n, sig |-> params, ret |-> r,
     arg |-> "funcptr", line |-> l]

\* ROSETTA_REGISTER_OVERLOADED_FUNCTION_AS(f, "alias", R (*)(Params...)): exposed under the alias
OverloadedAs(n, alias, r, params, l) ==
    [op |-> "overloaded_function_as", name |-> alias, sig |-> params, ret |-> r,
     arg |-> "funcptr", line |-> l]

HandleTypeNames == {"pmp::Vertex", "pmp::Face", "pmp::Edge", "pmp::Halfedge"}

HandleTypeOps ==
    << Class("pmp::Vertex", 64), Ctor(<<>>, 64),
       Class("pmp::Face", 65), Ctor(<<>>, 65),
       Class("pmp::Edge", 66), Ctor(<<>>, 66),
       Class("pmp::Halfedge", 67), Ctor(<<>>, 67) >>

IOFlagsOps ==
    << Class("pmp::IOFlags", 73), Ctor(<<>>, 74),
       Field("use_binary", 75),
       Field("use_vertex_normals", 76),
       Field("use_vertex_colors", 77),
       Field("use_vertex_texcoords", 78),
       Field("use_face_normals", 79),
       Field("use_face_colors", 80) >>

\* faulty variant: BoundingBox is registered under the name of Point (a copied line)
CoreTypeOps_DuplicateName ==
    << Class("pmp::Point", 87), Ctor(<<>>, 87), Ctor(<<"float", "float", "float">>, 87),
       Class("pmp::Point", 90), Ctor(<<>>, 91),
       Method("min", "pmp::Point", 92),
       Method("max", "pmp::Point", 93),
       Method("center", "pmp::Point", 94),
       Method("size", "pmp::Scalar", 95),
       Method("is_empty", "bool", 96) >>

CoreTypeOps ==
    << Class("pmp::Point", 87), Ctor(<<>>, 87), Ctor(<<"float", "float", "float">>, 87),
       Class("pmp::BoundingBox", 90), Ctor(<<>>, 91),
       Method("min", "pmp::Point", 92),
       Method("max", "pmp::Point", 93),
       Method("center", "pmp::Point", 94),
       Method("size", "pmp::Scalar", 95),
       Method("is_empty", "bool", 96) >>

SurfaceMeshOps ==
    << Class("pmp::SurfaceMesh", 99), Ctor(<<>>, 100),
       Method("add_vertex", "pmp::Vertex", 102),
       Method("add_triangle", "pmp::Face", 103),
       Method("add_quad", "pmp::Face", 104),
       Method("n_vertices", "size_t", 106),
       Method("n_edges", "size_t", 107),
       Method("n_faces", "size_t", 108),
       Method("n_halfedges", "size_t", 109),
       Method("is_empty", "bool", 111),
       Method("is_triangle_mesh", "bool", 112),
       Method("is_quad_mesh", "bool", 113),
       Method("clear", "void", 115),
       Method("reserve", "void", 116),
       Method("garbage_collection", "void", 117),
       Lambda("vertices", "std::vector<pmp::Scalar>", 118),
       Lambda("indices", "std::vector<pmp::IndexType>", 131) >>

SimpleFunctionOps ==
    << Func("pmp::decimate", 148),
       Func("pmp::explicit_smoothing", 151),
       Func("pmp::implicit_smoothing", 152),
       Func("pmp::uniform_remeshing", 155),
       Func("pmp::adaptive_remeshing", 156),
       Func("pmp::loop_subdivision", 159),
       Func("pmp::catmull_clark_subdivision", 160),
       Func("pmp::quad_tri_subdivision", 161),
       Func("pmp::vertex_normals", 164),
       Func("pmp::face_normals", 165),
       Func("pmp::detect_features", 168),
       Func("pmp::clear_features", 169),
       Func("pmp::fill_hole", 172),
       Func("pmp::curvature", 175),
       Func("pmp::tetrahedron", 178),
       Func("pmp::hexahedron", 179),
       Func("pmp::octahedron", 180),
       Func("pmp::dodecahedron", 181),
       Func("pmp::icosahedron", 182),
       Func("pmp::uv_sphere", 183),
       Func("pmp::plane", 184),
       Func("pmp::cone", 185),
       Func("pmp::cylinder", 186),
       Func("pmp::torus", 187),
       Func("pmp::harmonic_parameterization", 190),
       Func("pmp::lscm_parameterization", 191),
       Func("pmp::bounds", 194),
       Func("pmp::surface_area", 195),
       Func("pmp::volume", 196),
       Func("pmp::flip_faces", 197) >>

\* faulty variant: the second triangulate overload is registered without its alias
OverloadedFunctionOps_NoAlias ==
    << Overloaded("pmp::triangulate", "void", <<"pmp::SurfaceMesh &">>, 207),
       Overloaded("pmp::triangulate", "void", <<"pmp::SurfaceMesh &", "pmp::Face">>, 208),
       Overloaded("pmp::centroid", "pmp::Point", <<"const pmp::SurfaceMesh &">>, 212) >>

OverloadedFunctionOps ==
    << Overloaded("pmp::triangulate", "void", <<"pmp::SurfaceMesh &">>, 207),
       OverloadedAs("pmp::triangulate", "triangulate_face", "void",
                    <<"pmp::SurfaceMesh &", "pmp::Face">>, 208),
       Overloaded("pmp::centroid", "pmp::Point", <<"const pmp::SurfaceMesh &">>, 212) >>

WriteOp ==
    Overloaded("pmp::write", "void",
               <<"const pmp::SurfaceMesh &", "const std::filesystem::path &",
                 "const pmp::IOFlags &">>, 231)

\* faulty variant: copy_mesh(...) is called in the registration statement instead of being named
IOFunctionOps_CallsCopyMesh ==
    << Overloaded("pmp::read", "void",
                  <<"pmp::SurfaceMesh &", "const std::filesystem::path &">>, 220),
       Func("load_mesh", 224),
       [Func("copy_mesh", 227) EXCEPT !.arg = "call"],
       WriteOp >>

IOFunctionOps ==
    << Overloaded("pmp::read", "void",
                  <<"pmp::SurfaceMesh &", "const std::filesystem::path &">>, 220),
       Func("load_mesh", 224),
       Func("copy_mesh", 227),
       WriteOp >>

\* faulty variant: the handle types are registered after the class whose methods return them
Ops_HandlesLast ==
    IOFlagsOps \o CoreTypeOps \o SurfaceMeshOps \o HandleTypeOps \o
    SimpleFunctionOps \o OverloadedFunctionOps \o IOFunctionOps

\* the body of register_all
Ops ==
    HandleTypeOps \o IOFlagsOps \o CoreTypeOps \o SurfaceMeshOps \o
    SimpleFunctionOps \o OverloadedFunctionOps \o IOFunctionOps

NOps == Len(Ops)

----------------------------------------------------------------------------
(* Registry and FunctionRegistry *)

TypeDescriptor(n) == [name |-> n, ctors |-> <<>>, fields |-> <<>>, methods |-> <<>>]

FunctionDescriptor(o) == [name |-> o.name, sig |-> o.sig, ret |-> o.ret, callable |-> o.arg]

Present(reg, n) == \E i \in 1..Len(reg) : reg[i].name = n

lookup_type(n) == SelectSeq(registry, LAMBDA d : d.name = n)

lookup_function(n) == SelectSeq(func_registry, LAMBDA d : d.name = n)

lookup_method(t, m) ==
    IF lookup_type(t) = <<>> THEN <<>>
    ELSE SelectSeq(lookup_type(t)[1].methods, LAMBDA x : x.name = m)

\* The outcomes of inserting descriptor d: a fresh name is appended; a name already
\* present is rejected (throws), replaces the earlier descriptor, or is stored twice.
InsertOutcomes(reg, d) ==
    IF Present(reg, d.name)
    THEN LET i == CHOOSE k \in 1..Len(reg) : reg[k].name = d.name
         IN  { [reg |-> reg, at |-> 0, thrown |-> TRUE, lost |-> {}],
               [reg |-> [reg EXCEPT ![i] = d], at |-> i, thrown |-> FALSE, lost |-> {d.name}],
               [reg |-> Append(reg, d), at |-> Len(reg) + 1, thrown |-> FALSE, lost |-> {}] }
    ELSE { [reg |-> Append(reg, d), at |-> Len(reg) + 1, thrown |-> FALSE, lost |-> {}] }

\* What evaluating the accessor argument of a registration call executes: taking a
\* member pointer, naming a function or writing a lambda expression runs nothing.
CallsEvaluated(o) == IF o.arg = "call" THEN {o.name} ELSE {}

----------------------------------------------------------------------------
(* main *)

\* the command lines the process is started with
ArgVectors ==
    UNION { [1..n -> {"pmp_generator", "--python", "out"}] : n \in 1..(MaxArgs + 1) }

GenReturns == (-1)..MaxRet

NotStarted == [started |-> FALSE, argc |-> 0, argv |-> <<>>]

Running == [kind |-> "running", code |-> 0]

\* an exception leaves main uncaught: std::terminate, abort (SIGABRT)
AbortStatus == 128 + 6

\* faulty variant: main catches what register_all throws and goes on to the generator
OnRegisterAllThrow_Swallowed == "main_19"

\* main has no handler around register_all (lines 12-20): the exception ends the process
OnRegisterAllThrow == "terminated"

\* faulty variant: the generator is called with the program name dropped
RunArguments_Shifted == [started |-> TRUE, argc |-> argc - 1, argv |-> Tail(argv)]

\* return BindingGeneratorLib::run(argc, argv);
RunArguments == [started |-> TRUE, argc |-> argc, argv |-> argv]

\* faulty variant: the generator is started as the first statement of main
RunCallSite_First == {"main_15", "main_19"}

\* run is called at line 19, after the call of register_all at line 15 has returned
RunCallSite == {"main_19"}

InitProc ==
    /\ pc = "main_15"
    /\ ip = 1
    /\ registry = <<>>
    /\ func_registry = <<>>
    /\ builder = 0
    /\ overwritten = {}
    /\ executed = {}
    /\ argv \in ArgVectors
    /\ argc = Len(argv)
    /\ runArgs = NotStarted
    /\ genPos = 0
    /\ genRet = [returned |-> FALSE, value |-> 0]
    /\ exit = Running

InitMeshIdle ==
    /\ mesh = [verts |-> <<>>, faces |-> <<>>]
    /\ ret = [call |-> "none", buf |-> <<>>]

Init == InitProc /\ InitMeshIdle

\* pmp_rosetta::register_all();
CallRegisterAll ==
    /\ pc = "main_15"
    /\ pc' = "register_all"
    /\ UNCHANGED <<ip, registry, func_registry, builder, overwritten, executed,
                   argc, argv, runArgs, genPos, genRet, exit>>
    /\ UNCHANGED meshVars

AtOp(kinds) == pc = "register_all" /\ ip <= NOps /\ Ops[ip].op \in kinds

\* the effect common to registration calls: advance, or leave by exception
Advance(thrown) ==
    /\ pc' = IF thrown THEN OnRegisterAllThrow ELSE pc
    /\ ip' = IF thrown THEN ip ELSE ip + 1
    /\ exit' = IF thrown /\ OnRegisterAllThrow = "terminated"
               THEN [kind |-> "aborted", code |-> AbortStatus] ELSE exit
    /\ executed' = executed \cup CallsEvaluated(Ops[ip])
    /\ UNCHANGED <<argc, argv, runArgs, genPos, genRet>>
    /\ UNCHANGED meshVars

\* ROSETTA_REGISTER_CLASS(T)
RegisterClass ==
    /\ AtOp({"class"})
    /\ \E o \in InsertOutcomes(registry, TypeDescriptor(Ops[ip].name)) :
          /\ registry' = o.reg
          /\ builder' = o.at
          /\ overwritten' = overwritten \cup o.lost
          /\ Advance(o.thrown)
    /\ UNCHANGED func_registry

\* .constructor<Params...>()
Constructor ==
    /\ AtOp({"constructor"})
    /\ builder > 0
    /\ registry' = [registry EXCEPT ![builder].ctors = Append(@, Ops[ip].sig)]
    /\ Advance(FALSE)
    /\ UNCHANGED <<func_registry, builder, overwritten>>

\* .field(name, &T::member)
RegisterField ==
    /\ AtOp({"field"})
    /\ builder > 0
    /\ registry' = [registry EXCEPT ![builder].fields =
                        Append(@, [name |-> Ops[ip].name, accessor |-> Ops[ip].arg])]
    /\ Advance(FALSE)
    /\ UNCHANGED <<func_registry, builder, overwritten>>

MethodEntry(o) == [name |-> o.name, ret |-> o.ret, kind |-> o.op, callable |-> o.arg]

\* .method(name, &T::member)
RegisterMethod ==
    /\ AtOp({"method"})
    /\ builder > 0
    /\ registry' = [registry EXCEPT ![builder].methods = Append(@, MethodEntry(Ops[ip]))]
    /\ Advance(FALSE)
    /\ UNCHANGED <<func_registry, builder, overwritten>>

\* .lambda_method_const<R>(name, lambda), .lambda_method<R>(name, lambda)
RegisterLambdaMethod ==
    /\ AtOp({"lambda_method"})
    /\ builder > 0
    /\ registry' = [registry EXCEPT ![builder].methods = Append(@, MethodEntry(Ops[ip]))]
    /\ Advance(FALSE)
    /\ UNCHANGED <<func_registry, builder, overwritten>>

\* ROSETTA_REGISTER_FUNCTION, ROSETTA_REGISTER_OVERLOADED_FUNCTION and _AS
RegisterFunction ==
    /\ AtOp({"function", "overloaded_function", "overloaded_function_as"})
    /\ \E o \in InsertOutcomes(func_registry, FunctionDescriptor(Ops[ip])) :
          /\ func_registry' = o.reg
          /\ overwritten' = overwritten \cup o.lost
          /\ Advance(o.thrown)
    /\ UNCHANGED <<registry, builder>>

\* a registration call fails inside the library and throws
RegistrationThrows ==
    /\ pc = "register_all"
    /\ ip <= NOps
    /\ Advance(TRUE)
    /\ UNCHANGED <<registry, func_registry, builder, overwritten>>

\* the closing brace of register_all
ReturnFromRegisterAll ==
    /\ pc = "register_all"
    /\ ip = NOps + 1
    /\ pc' = "main_19"
    /\ UNCHANGED <<ip, registry, func_registry, builder, overwritten, executed,
                   argc, argv, runArgs, genPos, genRet, exit>>
    /\ UNCHANGED meshVars

\* BindingGeneratorLib::run(argc, argv) is entered
CallRun ==
    /\ pc \in RunCallSite
    /\ pc' = "run"
    /\ runArgs' = RunArguments
    /\ UNCHANGED <<ip, registry, func_registry, builder, overwritten, executed,
                   argc, argv, genPos, genRet, exit>>
    /\ UNCHANGED meshVars

\* the generator reads the next descriptor of the registries
RunRead ==
    /\ pc = "run"
    /\ genPos < Len(registry) + Len(func_registry)
    /\ genPos' = genPos + 1
    /\ UNCHANGED <<pc, ip, registry, func_registry, builder, overwritten, executed,
                   argc, argv, runArgs, genRet, exit>>
    /\ UNCHANGED meshVars

\* return BindingGeneratorLib::run(argc, argv);
MainReturn(r) == [kind |-> "returned", code |-> r]

\* run returns r and main returns it
RunReturn ==
    /\ pc = "run"
    /\ \E r \in GenReturns :
          /\ genRet' = [returned |-> TRUE, value |-> r]
          /\ exit' = MainReturn(r)
    /\ pc' = "exited"
    /\ UNCHANGED <<ip, registry, func_registry, builder, overwritten, executed,
                   argc, argv, runArgs, genPos>>
    /\ UNCHANGED meshVars

Next ==
    \/ CallRegisterAll
    \/ RegisterClass
    \/ Constructor
    \/ RegisterField
    \/ RegisterMethod
    \/ RegisterLambdaMethod
    \/ RegisterFunction
    \/ RegistrationThrows
    \/ ReturnFromRegisterAll
    \/ CallRun
    \/ RunRead
    \/ RunReturn

Spec == Init /\ [][Next]_vars

----------------------------------------------------------------------------
(* pmp::SurfaceMesh at call time, through the registered methods *)

\* the positions given to add_vertex
PointChoices == { <<1, 2, 3>>, <<4, 5, 6>> }

EmptyMesh == [verts |-> <<>>, faces |-> <<>>]

\* a call that returns no buffer
NoBuffer == [call |-> "none", buf |-> <<>>]

n_elements(self) == Len(self.verts) + Len(self.faces)

\* self.n_vertices(), self.n_faces()
n_vertices(self) == Len(self.verts)

n_faces(self) == Len(self.faces)

\* self.vertices(): the vertex handles in iteration order
MeshVertices(self) == [i \in 1..Len(self.verts) |-> self.verts[i].idx]

\* self.position(v) for the handle v
position(self, v) ==
    (CHOOSE r \in {self.verts[i] : i \in 1..Len(self.verts)} : r.idx = v).point

\* self.faces() in iteration order, and self.vertices(f) for the face f
MeshFaces(self) == [i \in 1..Len(self.faces) |-> i]

FaceVertices(self, f) == self.faces[f]

\* faulty variant: the y coordinate is pushed twice, z never
PushPoint_XYY(pos, p) == pos \o << p[1], p[2], p[2] >>

\* pos.push_back(p[0]); pos.push_back(p[1]); pos.push_back(p[2]);
PushPoint(pos, p) == pos \o << p[1], p[2], p[3] >>

RECURSIVE VerticesLoop(_, _, _)
\* for (auto v : self.vertices()) { const pmp::Point &p = self.position(v); ... }
VerticesLoop(self, vs, pos) ==
    IF vs = <<>> THEN pos
    ELSE VerticesLoop(self, Tail(vs), PushPoint(pos, position(self, Head(vs))))

\* the lambda registered as "vertices"
vertices(self) == VerticesLoop(self, MeshVertices(self), <<>>)

\* faulty variant: the indices are pushed one-based
PushIndex_OneBased(indices, v) == Append(indices, v + 1)

\* indices.push_back(v.idx());
PushIndex(indices, v) == Append(indices, v)

RECURSIVE FaceLoop(_, _)
\* for (auto v : self.vertices(f)) { indices.push_back(v.idx()); }
FaceLoop(vs, indices) ==
    IF vs = <<>> THEN indices
    ELSE FaceLoop(Tail(vs), PushIndex(indices, Head(vs)))

RECURSIVE FacesLoop(_, _, _)
\* for (auto f : self.faces()) { ... }
FacesLoop(self, fs, indices) ==
    IF fs = <<>> THEN indices
    ELSE FacesLoop(self, Tail(fs), FaceLoop(FaceVertices(self, Head(fs)), indices))

\* the lambda registered as "indices"
indices(self) == FacesLoop(self, MeshFaces(self), <<>>)

\* the directed edges (halfedges) of a face given by its vertices
FaceHalfedges(vs) ==
    { << vs[i], vs[(i % Len(vs)) + 1] >> : i \in 1..Len(vs) }

UsedHalfedges(self) ==
    UNION { FaceHalfedges(self.faces[f]) : f \in 1..Len(self.faces) }

\* a vertex is on the boundary when it is isolated or one of its outgoing halfedges
\* has no face
IsBoundary(self, v) ==
    LET used == UsedHalfedges(self)
    IN  \/ \A e \in used : e[1] # v /\ e[2] # v
        \/ \E e \in used : e[2] = v /\ << v, e[1] >> \notin used

\* add_face accepts distinct existing vertices, each on the boundary, whose
\* halfedges are not yet taken by a face; otherwise it throws and adds nothing.
\* A face is entered with its smallest handle first: the other rotations of the
\* same vertex cycle are the same face.
AddFaceValid(self, vs) ==
    /\ \A i \in 2..Len(vs) : vs[1] < vs[i]
    /\ \A i \in 1..Len(vs) : vs[i] \in 0..(n_vertices(self) - 1)
    /\ \A i, j \in 1..Len(vs) : i # j => vs[i] # vs[j]
    /\ \A i \in 1..Len(vs) : IsBoundary(self, vs[i])
    /\ FaceHalfedges(vs) \cap UsedHalfedges(self) = {}

Handles(self) == 0..(n_vertices(self) - 1)

\* a mesh as the generated binding first holds it; the generator process is not
\* part of a call on the binding
InitMesh == InitProc /\ argv = << "pmp_generator" >> /\ InitMeshIdle

\* mesh.add_vertex(p)
add_vertex ==
    /\ n_elements(mesh) < MaxElements
    /\ \E p \in PointChoices :
          mesh' = [mesh EXCEPT !.verts =
                      Append(@, [idx |-> n_vertices(mesh), point |-> p])]
    /\ ret' = NoBuffer
    /\ UNCHANGED procVars

\* mesh.add_triangle(v0, v1, v2)
add_triangle ==
    /\ n_elements(mesh) < MaxElements
    /\ \E v0, v1, v2 \in Handles(mesh) :
          /\ AddFaceValid(mesh, << v0, v1, v2 >>)
          /\ mesh' = [mesh EXCEPT !.faces = Append(@, << v0, v1, v2 >>)]
    /\ ret' = NoBuffer
    /\ UNCHANGED procVars

\* mesh.add_quad(v0, v1, v2, v3)
add_quad ==
    /\ n_elements(mesh) < MaxElements
    /\ \E v0, v1, v2, v3 \in Handles(mesh) :
          /\ AddFaceValid(mesh, << v0, v1, v2, v3 >>)
          /\ mesh' = [mesh EXCEPT !.faces = Append(@, << v0, v1, v2, v3 >>)]
    /\ ret' = NoBuffer
    /\ UNCHANGED procVars

\* mesh.clear()
clear ==
    /\ mesh' = EmptyMesh
    /\ ret' = NoBuffer
    /\ UNCHANGED procVars

\* mesh.garbage_collection(): no registered method deletes an element, so there is
\* nothing to collect and the handles stay as they are
garbage_collection ==
    /\ mesh' = mesh
    /\ ret' = NoBuffer
    /\ UNCHANGED procVars

\* mesh.vertices() through the generated binding
CallVertices ==
    /\ ret' = [call |-> "vertices", buf |-> vertices(mesh)]
    /\ UNCHANGED mesh
    /\ UNCHANGED procVars

\* mesh.indices() through the generated binding
CallIndices ==
    /\ ret' = [call |-> "indices", buf |-> indices(mesh)]
    /\ UNCHANGED mesh
    /\ UNCHANGED procVars

NextMesh ==
    \/ add_vertex
    \/ add_triangle
    \/ add_quad
    \/ clear
    \/ garbage_collection
    \/ CallVertices
    \/ CallIndices

SpecMesh == InitMesh /\ [][NextMesh]_vars

----------------------------------------------------------------------------
(* Claims about the process *)

RegisterAllReturned == ip = NOps + 1 /\ pc \in {"main_19", "run", "exited"}

\* C1: run is never started before register_all has returned, and no write to the
\* Registry or the FunctionRegistry happens once the generator has started.
C1_PhasesOrdered ==
    /\ [](runArgs.started => RegisterAllReturned /\ pc \in {"run", "exited"})
    /\ [][runArgs.started => UNCHANGED <<registry, func_registry>>]_vars

\* C1 witness: the generator is reading descriptors of the completed registries
C1_Witness ==
    /\ pc = "run"
    /\ genPos > Len(registry)
    /\ Present(registry, "pmp::SurfaceMesh")
    /\ Present(func_registry, "pmp::write")

DefaultConstructible(n) ==
    \E i \in 1..Len(registry) :
        /\ registry[i].name = n
        /\ \E k \in 1..Len(registry[i].ctors) : registry[i].ctors[k] = <<>>

\* C2: whenever a method returning a handle type is in the Registry, that handle type
\* is in the Registry with a default constructor; all four handle types are there
\* when SurfaceMesh is declared; and after register_all the method add_vertex is
\* found and its return type resolves to the registered Vertex descriptor.
C2_HandlesRegisteredFirst ==
    /\ \A i \in 1..Len(registry) : \A k \in 1..Len(registry[i].methods) :
          registry[i].methods[k].ret \in HandleTypeNames
              => DefaultConstructible(registry[i].methods[k].ret)
    /\ Present(registry, "pmp::SurfaceMesh")
          => \A h \in HandleTypeNames : DefaultConstructible(h)
    /\ RegisterAllReturned =>
          /\ Len(lookup_method("pmp::SurfaceMesh", "add_vertex")) = 1
          /\ Len(lookup_type(lookup_method("pmp::SurfaceMesh", "add_vertex")[1].ret)) = 1
          /\ lookup_type(lookup_method("pmp::SurfaceMesh", "add_vertex")[1].ret)[1].name
                = "pmp::Vertex"

\* C2 witness: inside register_all, add_vertex, add_triangle and add_quad have just
\* been registered
C2_Witness ==
    /\ pc = "register_all"
    /\ Len(lookup_method("pmp::SurfaceMesh", "add_vertex")) = 1
    /\ Len(lookup_method("pmp::SurfaceMesh", "add_quad")) = 1
    /\ Len(lookup_method("pmp::SurfaceMesh", "n_vertices")) = 0

UniqueNames(reg) ==
    \A i, j \in 1..Len(reg) : i # j => reg[i].name # reg[j].name

C5_TriangulateOverloads ==
    RegisterAllReturned =>
        /\ Len(lookup_function("pmp::triangulate")) = 1
        /\ lookup_function("pmp::triangulate")[1].sig = <<"pmp::SurfaceMesh &">>
        /\ Len(lookup_function("triangulate_face")) = 1
        /\ lookup_function("triangulate_face")[1].sig = <<"pmp::SurfaceMesh &", "pmp::Face">>
        /\ overwritten \cap {"pmp::triangulate", "triangulate_face"} = {}

\* C5 witness: both overloads are in the FunctionRegistry after register_all
C5_Witness ==
    /\ pc = "main_19"
    /\ Present(func_registry, "pmp::triangulate")
    /\ Present(func_registry, "triangulate_face")

C7_ArgsAndExitCode ==
    /\ [](/\ runArgs.started => runArgs.argc = argc /\ runArgs.argv = argv
          /\ exit.kind = "returned" => genRet.returned /\ exit.code = genRet.value)
    /\ [][argc' = argc /\ argv' = argv]_vars

\* C7 witness: the generator returned a non-zero value for a command line with options
C7_Witness ==
    /\ pc = "exited"
    /\ genRet.value # 0
    /\ exit.code = genRet.value
    /\ runArgs.argc > 1

StoredCallables ==
    UNION { { registry[i].methods[k].callable : k \in 1..Len(registry[i].methods) } :
              i \in 1..Len(registry) }
    \cup UNION { { registry[i].fields[k].accessor : k \in 1..Len(registry[i].fields) } :
              i \in 1..Len(registry) }
    \cup { func_registry[i].callable : i \in 1..Len(func_registry) }

\* C8: during the registration phase no registered accessor, method, function or
\* lambda is executed; each is stored as a pointer or closure.
C8_NothingExecuted ==
    /\ executed = {}
    /\ StoredCallables \subseteq {"memptr", "closure", "funcptr"}

\* C8 witness: the lambdas and copy_mesh, load_mesh are stored and nothing has run
C8_Witness ==
    /\ pc = "main_19"
    /\ Len(lookup_method("pmp::SurfaceMesh", "vertices")) = 1
    /\ Len(lookup_method("pmp::SurfaceMesh", "indices")) = 1
    /\ Present(func_registry, "copy_mesh")
    /\ Present(func_registry, "load_mesh")
    /\ executed = {}

----------------------------------------------------------------------------
(* Claims about the synthesized methods *)

\* C9: the buffer returned by vertices has length 3 * n_vertices(), holds the x, y, z
\* of the k-th vertex in iteration order at offsets 3k, 3k+1, 3k+2, is a flat sequence
\* of scalars declared as std::vector<pmp::Scalar>, and the call leaves the mesh as
\* it was.
C9_VerticesBuffer ==
    /\ [](ret.call = "vertices" =>
            /\ Len(ret.buf) = 3 * n_vertices(mesh)
            /\ \A k \in 0..(n_vertices(mesh) - 1) :
                  /\ ret.buf[3 * k + 1] = mesh.verts[k + 1].point[1]
                  /\ ret.buf[3 * k + 2] = mesh.verts[k + 1].point[2]
                  /\ ret.buf[3 * k + 3] = mesh.verts[k + 1].point[3]
            /\ \A i \in 1..Len(ret.buf) : ret.buf[i] \in Int
            /\ \E i \in 1..NOps :
                  /\ Ops[i].op = "lambda_method"
                  /\ Ops[i].name = "vertices"
                  /\ Ops[i].ret = "std::vector<pmp::Scalar>")
    /\ [][ret'.call = "vertices" => mesh' = mesh]_vars

\* C9 witness: vertices was called on a mesh of three vertices, not all at one point
C9_Witness ==
    /\ ret.call = "vertices"
    /\ n_vertices(mesh) = 3
    /\ Len(ret.buf) = 9
    /\ ret.buf[1] # ret.buf[4]

RECURSIVE ValenceSum(_, _)
\* the number of vertices of the first n faces
ValenceSum(faces, n) ==
    IF n = 0 THEN 0 ELSE ValenceSum(faces, n - 1) + Len(faces[n])

\* C10: on every mesh built by add_vertex, add_triangle, add_quad, clear and
\* garbage_collection, each entry i of indices is in 0 .. len(vertices)/3 - 1 and is
\* the vertex whose coordinates are at offset 3i of vertices; indices lists the
\* vertices of each face contiguously in face order, so its length is the sum of the
\* face valences.
C10_BuffersConsistent ==
    LET V == vertices(mesh)
        I == indices(mesh)
    IN  /\ ret.call = "vertices" => ret.buf = V
        /\ ret.call = "indices" => ret.buf = I
        /\ Len(I) = ValenceSum(mesh.faces, n_faces(mesh))
        /\ \A k \in 1..Len(I) : 0 <= I[k] /\ I[k] < Len(V) \div 3
        /\ \A f \in 1..n_faces(mesh) : \A j \in 1..Len(mesh.faces[f]) :
              LET e == I[ValenceSum(mesh.faces, f - 1) + j]
                  p == position(mesh, mesh.faces[f][j])
              IN  /\ V[3 * e + 1] = p[1]
                  /\ V[3 * e + 2] = p[2]
                  /\ V[3 * e + 3] = p[3]

\* C10 witness: indices was called on a mesh of a triangle and a quad
C10_Witness ==
    /\ ret.call = "indices"
    /\ n_faces(mesh) = 2
    /\ Len(ret.buf) = 7
    /\ Len(ret.buf) # 3 * n_faces(mesh)
    /\ \E a, b \in 1..n_vertices(mesh) : mesh.verts[a].point # mesh.verts[b].point

====
